---------------------------- MODULE Spec2Model ----------------------------
(***************************************************************************)
(* WebSentry AI: the report pipeline (fetch -> rule evaluation ->          *)
(* summarization -> report assembly) of src/websentry/cli.py,              *)
(* src/websentry/webapp.py and src/websentry/llm/summary.py.               *)
(*                                                                         *)
(* A Python str is a sequence of character codes, so that lower(), strip() *)
(* find() and the ordering of sorted() are computed, not assumed.  A dict  *)
(* is the sequence of its items in insertion order.                        *)
(***************************************************************************)
EXTENDS Integers, Sequences, FiniteSets, TLC

VARIABLES
    env,      \* os.environ of the process: name -> [set, val]
    pc,       \* "ready" before the handler runs, "done" after it returned
    out,      \* what the handler that ran did and returned
    now,      \* the UTC clock, in whole seconds
    files,    \* REPORTS_DIR: file name -> [scan, kind]
    scans     \* the /scan requests in flight: thread -> its position and locals

vars == <<env, pc, out, now, files, scans>>

---------------------------------------------------------------------------
(* Bounds of the model *)

\* the most x-... filler headers a response carries beside the three the rules read
MaxFill == 24
\* the longest findings sequence handed to the summarizer on its own
MaxFindings == 3
\* the last second of the clock
MaxClock == 2

---------------------------------------------------------------------------
(* str *)

Upper(c) == IF c \in 97..122 THEN c - 32 ELSE c

LowerChar(c) == IF c \in 65..90 THEN c + 32 ELSE c

\* str.lower()
Lower(s) == [i \in 1..Len(s) |-> LowerChar(s[i])]

\* str.isspace() of one character: space, \t, \n, \v, \f, \r
IsSpace(c) == c \in {32, 9, 10, 11, 12, 13}

\* str.strip()
Strip(s) ==
    LET keep == {i \in 1..Len(s) : ~IsSpace(s[i])}
    IN  IF keep = {} THEN <<>>
        ELSE LET lo == CHOOSE i \in keep : \A j \in keep : i <= j
                 hi == CHOOSE i \in keep : \A j \in keep : j <= i
             IN  SubSeq(s, lo, hi)

\* str.find(pat): the least 0-based index where pat occurs, -1 when it does not
Find(s, pat) ==
    LET at == {i \in 1..(Len(s) - Len(pat) + 1) : SubSeq(s, i, i + Len(pat) - 1) = pat}
    IN  IF at = {} THEN -1
        ELSE (CHOOSE i \in at : \A j \in at : i <= j) - 1

\* a < b for two str: by the first code that differs, a proper prefix first
StrLess(a, b) ==
    \/ \E i \in 1..Len(a) :
          /\ i <= Len(b)
          /\ a[i] < b[i]
          /\ \A j \in 1..(i - 1) : a[j] = b[j]
    \/ /\ Len(a) < Len(b)
       /\ \A j \in 1..Len(a) : a[j] = b[j]

\* sorted(keys) of distinct str
RECURSIVE Sorted(_)
Sorted(S) ==
    IF S = {} THEN <<>>
    ELSE LET m == CHOOSE a \in S : \A b \in S \ {a} : StrLess(a, b)
         IN  <<m>> \o Sorted(S \ {m})

\* seq[:n]
Prefix(s, n) == SubSeq(s, 1, IF Len(s) < n THEN Len(s) ELSE n)

---------------------------------------------------------------------------
(* The literals of the source *)

s_true == <<116, 114, 117, 101>>                                  \* "true"
s_false == <<102, 97, 108, 115, 101>>                             \* "false"
s_TRUE == <<84, 82, 85, 69>>                                      \* "TRUE"
s_Unknown == <<85, 110, 107, 110, 111, 119, 110>>                 \* "Unknown"
s_title_open == <<60, 116, 105, 116, 108, 101, 62>>               \* "<title>"
s_title_close == <<60, 47, 116, 105, 116, 108, 101, 62>>          \* "</title>"
s_version == <<48, 46, 49, 46, 48>>                               \* "0.1.0"
\* "content-security-policy"
h_csp == <<99, 111, 110, 116, 101, 110, 116, 45, 115, 101, 99, 117, 114, 105, 116, 121,
           45, 112, 111, 108, 105, 99, 121>>
\* "x-frame-options"
h_xfo == <<120, 45, 102, 114, 97, 109, 101, 45, 111, 112, 116, 105, 111, 110, 115>>
\* "server"
h_server == <<115, 101, 114, 118, 101, 114>>

---------------------------------------------------------------------------
(* os.environ *)

Unset == [set |-> FALSE, val |-> <<>>]

SetTo(s) == [set |-> TRUE, val |-> s]

\* os.getenv(name, default)
Getenv(name, default) == IF env[name].set THEN env[name].val ELSE default

\* bool(os.getenv(name)): None and "" are both falsy
GetenvTruthy(name) == env[name].set /\ env[name].val # <<>>

\* int(s) / float(s) succeed: digits with at most one point, blanks around allowed
ParsesAsNumber(s) ==
    LET t == Strip(s)
    IN  /\ t # <<>>
        /\ \A i \in 1..Len(t) : t[i] \in 48..57 \/ t[i] = 46
        /\ Cardinality({i \in 1..Len(t) : t[i] = 46}) <= 1
        /\ \E i \in 1..Len(t) : t[i] \in 48..57

---------------------------------------------------------------------------
(* Header maps *)

\* key in headers
HasKey(headers, k) == \E i \in 1..Len(headers) : headers[i].k = k

\* headers.get(key): None is the empty str here, it is only read when the key is there
Get(headers, k) ==
    IF HasKey(headers, k)
    THEN headers[CHOOSE i \in 1..Len(headers) : headers[i].k = k].v
    ELSE <<>>

Keys(headers) == {headers[i].k : i \in 1..Len(headers)}

---------------------------------------------------------------------------
(* Formatted text *)

\* An f-string: the literal text of the source with {i} for its i-th argument, and
\* the arguments.  A str that is no f-string is Plain.
Fmt(template, args) == [template |-> template, args |-> args]

Plain(s) == Fmt("{1}", <<s>>)

\* The templates of the source other than "{1}" all hold literal characters, so
\* the text is empty only when it is a Plain empty str.
IsEmptyText(t) == t.template = "{1}" /\ t.args[1] = <<>>

---------------------------------------------------------------------------
(* cli.py: the rule engine *)

CspFinding ==
    [title |-> "Missing Content-Security-Policy header",
     severity |-> "Medium",
     evidence |-> Fmt("No Content-Security-Policy header present in response", <<>>),
     mitigation |-> "Add a strict Content-Security-Policy header to reduce XSS risk"]

XfoFinding ==
    [title |-> "Missing X-Frame-Options header",
     severity |-> "Low",
     evidence |-> Fmt("No X-Frame-Options header present in response", <<>>),
     mitigation |-> "Add X-Frame-Options or frame-ancestors to prevent clickjacking"]

ServerFinding(headers) ==
    [title |-> "Server version disclosure",
     severity |-> "Low",
     evidence |-> Fmt("Server header present: {1}", <<Get(headers, h_server)>>),
     mitigation |-> "Disable or obfuscate server version headers"]

run_rule_based_checks(headers) ==
    (IF ~HasKey(headers, h_csp) THEN <<CspFinding>> ELSE <<>>)
    \o (IF ~HasKey(headers, h_xfo) THEN <<XfoFinding>> ELSE <<>>)
    \o (IF HasKey(headers, h_server) THEN <<ServerFinding(headers)>> ELSE <<>>)

\* sum(1 for f in findings if f.get("severity") == sev)
CountSeverity(findings, sev) ==
    Cardinality({i \in 1..Len(findings) : findings[i].severity = sev})

---------------------------------------------------------------------------
(* llm/summary.py *)

\* llm_enabled without its second conjunct
llm_enabled_flag_only == Lower(Getenv("WEBSENTRY_LLM_ENABLED", s_false)) = s_true

llm_enabled ==
    /\ Lower(Getenv("WEBSENTRY_LLM_ENABLED", s_false)) = s_true
    /\ GetenvTruthy("OPENAI_API_KEY")

rule_based_executive_summary(url, title, findings) ==
    LET high == CountSeverity(findings, "High")
        med == CountSeverity(findings, "Medium")
        low == CountSeverity(findings, "Low")
        posture == IF high > 0 THEN "elevated risk"
                   ELSE IF med > 0 THEN "moderate risk"
                   ELSE "low-to-moderate risk"
        priority ==
            IF high > 0
            THEN "address High severity issues immediately, followed by Medium and Low findings"
            ELSE IF med > 0
            THEN "remediate Medium severity issues first, then address Low severity hardening gaps"
            ELSE "resolve Low severity configuration and hardening issues"
    IN  IF findings = <<>>
        THEN Fmt("A lightweight security review of {1} ({2}) did not identify obvious baseline security misconfigurations during limited automated checks. This does not guarantee the application is secure, and deeper authenticated testing may still be required.",
                 <<url, title>>)
        ELSE Fmt("A lightweight security review of {1} ({2}) identified {3} issue(s): {4} High, {5} Medium, and {6} Low. Overall, the application presents a {7} security posture driven primarily by configuration and security header gaps. It is recommended to {8} and re-test to validate remediation.",
                 <<url, title, Len(findings), high, med, low, posture, priority>>)

\* What the openai package does when generate_executive_summary uses it:
\*   import_ok    `from openai import OpenAI` succeeds
\*   client_ok    OpenAI() is constructed
\*   create       "raise" (timeout, auth failure, any error) or "ok"
\*   choices      how many choices the response holds
\*   content_none resp.choices[0].message.content is None
\*   content      resp.choices[0].message.content otherwise
LlmOutcome(import_ok, client_ok, create, choices, content_none, content) ==
    [import_ok |-> import_ok, client_ok |-> client_ok, create |-> create,
     choices |-> choices, content_none |-> content_none, content |-> content]

\* return text if text else fallback
summary_text_unchecked(text, fallback) == Plain(text)

summary_text(text, fallback) == IF text # <<>> THEN Plain(text) ELSE fallback

generate_executive_summary(url, title, findings, o) ==
    LET fallback == rule_based_executive_summary(url, title, findings)
        pre == <<"rule_based_executive_summary", "llm_enabled">>
        fell(log) == [raised |-> FALSE, value |-> fallback, log |-> log]
    IN  IF ~llm_enabled THEN fell(pre)
        \* try:
        ELSE IF ~o.import_ok THEN fell(pre \o <<"import">>)
        ELSE IF ~o.client_ok THEN fell(pre \o <<"import", "OpenAI">>)
        \* the arguments of create are evaluated before the call
        ELSE IF ~ParsesAsNumber(Getenv("WEBSENTRY_LLM_MAX_TOKENS", <<49, 52, 48>>))
        THEN fell(pre \o <<"import", "OpenAI">>)
        ELSE IF ~ParsesAsNumber(Getenv("WEBSENTRY_LLM_TEMPERATURE", <<48, 46, 51>>))
        THEN fell(pre \o <<"import", "OpenAI">>)
        ELSE IF o.create = "raise" THEN fell(pre \o <<"import", "OpenAI", "create">>)
        \* resp.choices[0]: IndexError
        ELSE IF o.choices = 0 THEN fell(pre \o <<"import", "OpenAI", "create">>)
        ELSE LET text == Strip(IF o.content_none THEN <<>> ELSE o.content)
             IN  [raised |-> FALSE,
                  value |-> summary_text(text, fallback),
                  log |-> pre \o <<"import", "OpenAI", "create">>]

---------------------------------------------------------------------------
(* What a target server answers *)

\* a header name as a server spells it: "server", "Server" or "SERVER"
Styled(name, style) ==
    [i \in 1..Len(name) |->
        IF style = "UPPER" THEN Upper(name[i])
        ELSE IF style = "Title" /\ (i = 1 \/ name[i - 1] = 45) THEN Upper(name[i])
        ELSE name[i]]

Styles == {"lower", "Title", "UPPER"}

\* "x-a", "x-b", ...: headers no rule reads
Filler(i) == <<120, 45, 96 + i>>

v_nginx == <<110, 103, 105, 110, 120, 47, 49, 46, 49, 56>>        \* "nginx/1.18"
v_self == <<39, 115, 101, 108, 102, 39>>                          \* "'self'"
v_deny == <<68, 69, 78, 89>>                                      \* "DENY"

Reverse(s) == [i \in 1..Len(s) |-> s[Len(s) + 1 - i]]

\* The response headers on the wire, in the order sent: those of `present` among
\* server, content-security-policy and x-frame-options, then n fillers, every name
\* in the server's letter case; or the same in reverse order.
ResponseHeaders(present, style, n, reversed) ==
    LET special == SelectSeq(<<[k |-> h_server, v |-> v_nginx],
                               [k |-> h_csp, v |-> v_self],
                               [k |-> h_xfo, v |-> v_deny]>>,
                             LAMBDA h : h.k \in present)
        fill == [i \in 1..n |-> [k |-> Filler(i), v |-> <<48 + (i % 10)>>]]
        sent == [i \in 1..(Len(special) + n) |->
                    LET h == (special \o fill)[i]
                    IN  [k |-> Styled(h.k, style), v |-> h.v]]
    IN  IF reversed THEN Reverse(sent) ELSE sent

\* a bare response, or one with MaxFill headers more
Responses ==
    {ResponseHeaders(present, style, n, reversed) :
        present \in SUBSET {h_server, h_csp, h_xfo}, style \in Styles,
        n \in {0, MaxFill}, reversed \in BOOLEAN}

\* page bodies: "<title> T </title>", "<TITLE>T</TITLE>", "</title><title>",
\* "<title></title>" and ""
Bodies ==
    {s_title_open \o <<32, 84, 32>> \o s_title_close,
     <<60, 84, 73, 84, 76, 69, 62, 84, 60, 47, 84, 73, 84, 76, 69, 62>>,
     s_title_close \o s_title_open,
     s_title_open \o s_title_close,
     <<>>}

u_a == <<104, 116, 116, 112, 58, 47, 47, 97>>                     \* "http://a"
u_b == <<104, 116, 116, 112, 58, 47, 47, 98>>                     \* "http://b"

---------------------------------------------------------------------------
(* The two fetchers *)

\* What the transport does: ok = FALSE is a network error, a timeout or a host
\* that does not resolve; text_ok = FALSE is r.text raising.
Fetched(ok, headers, body, text_ok, page_title) ==
    [ok |-> ok, headers |-> headers, body |-> body, text_ok |-> text_ok,
     page_title |-> page_title]

\* cli.py: Playwright's response.headers has its header names lower-cased.
cli_fetch_page_title_and_headers(f) ==
    IF ~f.ok THEN [raised |-> TRUE, title |-> <<>>, headers |-> <<>>]
    ELSE [raised |-> FALSE,
          title |-> f.page_title,
          headers |-> [i \in 1..Len(f.headers) |->
                          [k |-> Lower(f.headers[i].k), v |-> f.headers[i].v]]]

\* the title parse of webapp.py
ParseTitle(f) ==
    IF ~f.text_ok THEN s_Unknown
    ELSE LET text == f.body
             lo == Lower(text)
             t1 == Find(lo, s_title_open)
             t2 == Find(lo, s_title_close)
         IN  IF t1 # -1 /\ t2 # -1 /\ t2 > t1
             THEN Strip(SubSeq(text, t1 + 7 + 1, t2))
             ELSE s_Unknown

\* webapp.py: dict(r.headers) of requests' CaseInsensitiveDict keeps each key in
\* the letter case the server sent.
web_fetch_page_title_and_headers(f) ==
    IF ~f.ok THEN [raised |-> TRUE, title |-> <<>>, headers |-> <<>>]
    ELSE [raised |-> FALSE, title |-> ParseTitle(f), headers |-> f.headers]

---------------------------------------------------------------------------
(* Report assembly *)

\* cli.py:93
HeadersSampleCli == 25
\* webapp.py:79
HeadersSampleWeb == 20

NoReport == [none |-> TRUE]

HasReport(r) == "url" \in DOMAIN r

\* {k: headers[k] for k in sorted(headers.keys())[:25]}
cli_headers_sample(headers) ==
    LET ks == Prefix(Sorted(Keys(headers)), HeadersSampleCli)
    IN  [i \in 1..Len(ks) |-> [k |-> ks[i], v |-> Get(headers, ks[i])]]

\* dict(list(headers.items())[:20])
web_headers_sample(headers) == Prefix(headers, HeadersSampleWeb)

\* _llm_mode_string reading the opt-in flag alone
mode_string_flag_only ==
    IF llm_enabled_flag_only THEN "AI-assisted (LLM enabled)" ELSE "Rule-based (LLM disabled)"

_llm_mode_string ==
    IF llm_enabled THEN "AI-assisted (LLM enabled)" ELSE "Rule-based (LLM disabled)"

\* webapp.py: _build_report(url), given what the transport and the openai package do
_build_report(url, f, o) ==
    LET got == web_fetch_page_title_and_headers(f)
    IN  IF got.raised
        THEN [raised |-> TRUE, report |-> NoReport, headers |-> <<>>, log |-> <<"fetch">>]
        ELSE LET findings == run_rule_based_checks(got.headers)
                 summary == generate_executive_summary(url, got.title, findings, o)
             IN  [raised |-> FALSE,
                  headers |-> got.headers,
                  log |-> <<"fetch", "rules">> \o summary.log \o <<"assemble">>,
                  report |->
                    [url |-> url,
                     title |-> got.title,
                     executive_summary |-> summary.value,
                     headers_sample |-> web_headers_sample(got.headers),
                     findings |-> findings,
                     meta |-> [tool |-> "WebSentry AI",
                               version |-> Getenv("WEBSENTRY_VERSION", s_version),
                               scanned_at |-> now,
                               mode |-> _llm_mode_string,
                               scope |-> "Unauthenticated, read-only checks (MVP)"]]]

\* cli.py: main(url) up to the console summary
cli_main(url, f) ==
    LET got == cli_fetch_page_title_and_headers(f)
    IN  IF got.raised
        THEN [raised |-> TRUE, report |-> NoReport, headers |-> <<>>, log |-> <<"fetch">>]
        ELSE LET findings == run_rule_based_checks(got.headers)
                 severity_counts == [High |-> CountSeverity(findings, "High"),
                                     Medium |-> CountSeverity(findings, "Medium"),
                                     Low |-> CountSeverity(findings, "Low")]
             IN  [raised |-> FALSE,
                  headers |-> got.headers,
                  log |-> <<"fetch", "rules", "assemble", "save_json", "save_html">>,
                  report |->
                    [url |-> url,
                     title |-> got.title,
                     headers_sample |-> cli_headers_sample(got.headers),
                     findings |-> findings,
                     meta |-> [tool |-> "WebSentry AI",
                               version |-> s_version,
                               scanned_at |-> now],
                     summary |-> [total_findings |-> Len(findings),
                                  severity_breakdown |-> severity_counts]]]

---------------------------------------------------------------------------
(* Inputs *)

EnvNames ==
    {"WEBSENTRY_LLM_ENABLED", "OPENAI_API_KEY", "WEBSENTRY_LLM_MAX_TOKENS",
     "WEBSENTRY_LLM_TEMPERATURE", "WEBSENTRY_API_KEY", "WEBSENTRY_VERSION"}

k_sk == <<115, 107>>                                              \* "sk"
k_abc == <<97, 98, 99>>                                           \* "abc"
k_ABC == <<65, 66, 67>>                                           \* "ABC"
t_T == <<84>>                                                     \* "T"

MakeEnv(flag, key, tokens, temperature, api_key) ==
    [n \in EnvNames |->
        CASE n = "WEBSENTRY_LLM_ENABLED" -> flag
          [] n = "OPENAI_API_KEY" -> key
          [] n = "WEBSENTRY_LLM_MAX_TOKENS" -> tokens
          [] n = "WEBSENTRY_LLM_TEMPERATURE" -> temperature
          [] n = "WEBSENTRY_API_KEY" -> api_key
          [] OTHER -> Unset]

\* the environments of the summarizer on its own
SummarizerEnvs ==
    {MakeEnv(flag, key, tokens, temperature, Unset) :
        flag \in {Unset, SetTo(s_true), SetTo(s_TRUE), SetTo(s_false)},
        key \in {Unset, SetTo(<<>>), SetTo(k_sk)},
        tokens \in {Unset, SetTo(k_abc)},
        temperature \in {Unset, SetTo(k_abc)}}

\* the environments of a scan
ScanEnvs ==
    {MakeEnv(flag, key, Unset, Unset, api_key) :
        flag \in {Unset, SetTo(s_TRUE)},
        key \in {Unset, SetTo(<<>>), SetTo(k_sk)},
        api_key \in {Unset, SetTo(<<>>), SetTo(k_abc)}}

\* import fails; OpenAI() fails; create raises; no choices; content None, "",
\* "  ", " S " and "S"
LlmOutcomes ==
    {LlmOutcome(FALSE, FALSE, "raise", 0, FALSE, <<>>),
     LlmOutcome(TRUE, FALSE, "raise", 0, FALSE, <<>>),
     LlmOutcome(TRUE, TRUE, "raise", 0, FALSE, <<>>),
     LlmOutcome(TRUE, TRUE, "ok", 0, FALSE, <<>>),
     LlmOutcome(TRUE, TRUE, "ok", 1, TRUE, <<>>),
     LlmOutcome(TRUE, TRUE, "ok", 1, FALSE, <<>>),
     LlmOutcome(TRUE, TRUE, "ok", 1, FALSE, <<32, 10>>),
     LlmOutcome(TRUE, TRUE, "ok", 1, FALSE, <<32, 83, 32>>),
     LlmOutcome(TRUE, TRUE, "ok", 1, FALSE, <<83>>)}

\* create raises (a timeout); content "" and "S"
ScanLlmOutcomes ==
    {LlmOutcome(TRUE, TRUE, "raise", 0, FALSE, <<>>),
     LlmOutcome(TRUE, TRUE, "ok", 1, FALSE, <<>>),
     LlmOutcome(TRUE, TRUE, "ok", 1, FALSE, <<83>>)}

HighFinding ==
    [title |-> "Sample high finding",
     severity |-> "High",
     evidence |-> Fmt("sample", <<>>),
     mitigation |-> "sample"]

RECURSIVE SeqsUpTo(_, _)
SeqsUpTo(S, n) ==
    IF n = 0 THEN {<<>>}
    ELSE LET shorter == SeqsUpTo(S, n - 1)
         IN  shorter \cup {Append(q, x) : q \in shorter, x \in S}

FindingSeqs == SeqsUpTo({HighFinding, CspFinding, XfoFinding}, MaxFindings)

\* what the transport may do for a scan
Fetches ==
    {Fetched(FALSE, <<>>, <<>>, TRUE, <<>>)}
    \cup {Fetched(TRUE, h, b, TRUE, t_T) : h \in Responses, b \in Bodies}
    \cup {Fetched(TRUE, h, <<>>, FALSE, <<>>) : h \in Responses}

\* a POST /scan-json: the X-API-Key header, and the body: not JSON, a JSON list, or
\* a JSON object whose "url" is missing, null or a str
Request(has_key, key, body, has_url, url_null, url) ==
    [has_key |-> has_key, key |-> key, body |-> body, has_url |-> has_url,
     url_null |-> url_null, url |-> url]

Requests ==
    {Request(hk[1], hk[2], b[1], b[2], b[3], b[4]) :
        hk \in {<<FALSE, <<>>>>, <<TRUE, k_abc>>, <<TRUE, k_ABC>>},
        b \in {<<"malformed", FALSE, FALSE, <<>>>>,
               <<"list", FALSE, FALSE, <<>>>>,
               <<"object", FALSE, FALSE, <<>>>>,
               <<"object", TRUE, TRUE, <<>>>>,
               <<"object", TRUE, FALSE, <<>>>>,
               <<"object", TRUE, FALSE, <<32, 32>>>>,
               <<"object", TRUE, FALSE, <<32>> \o u_a \o <<10>>>>,
               <<"object", TRUE, FALSE, u_a>>}}

---------------------------------------------------------------------------
(* Handlers *)

Idle == [op |-> "none"]

\* scan_json's check of X-API-Key, compared ignoring letter case
api_key_rejected_caseless(req) ==
    /\ GetenvTruthy("WEBSENTRY_API_KEY")
    /\ Lower(IF req.has_key THEN req.key ELSE <<>>) # Lower(Getenv("WEBSENTRY_API_KEY", <<>>))

\* webapp.py: scan_json's check of X-API-Key
api_key_rejected(req) ==
    /\ GetenvTruthy("WEBSENTRY_API_KEY")
    /\ (IF req.has_key THEN req.key ELSE <<>>) # Getenv("WEBSENTRY_API_KEY", <<>>)

\* what a handler did: the request, what the transport and the openai package did
\* for it, the response status, whether the handler raised, the report it
\* assembled, the header map it handed to the rule engine and the stages it ran
Answer(op, req, f, o, status, raised, b) ==
    [op |-> op, request |-> req, fetch |-> f, outcome |-> o, status |-> status,
     raised |-> raised, report |-> b.report, headers |-> b.headers, log |-> b.log]

Nothing(log) == [report |-> NoReport, headers |-> <<>>, log |-> log]

\* webapp.py: POST /scan-json
scan_json ==
    /\ pc = "ready"
    /\ \E req \in Requests :
          IF api_key_rejected(req)
          THEN out' = Answer("scan_json", req, "none", Idle, 401, FALSE, Nothing(<<"auth">>))
          \* await request.json() raises
          ELSE IF req.body = "malformed"
          THEN out' = Answer("scan_json", req, "none", Idle, 500, TRUE, Nothing(<<"auth", "parse">>))
          \* data.get on a list raises
          ELSE IF req.body = "list"
          THEN out' = Answer("scan_json", req, "none", Idle, 500, TRUE, Nothing(<<"auth", "parse">>))
          ELSE LET url == Strip(IF req.has_url /\ ~req.url_null THEN req.url ELSE <<>>)
               IN  IF url = <<>>
                   THEN out' = Answer("scan_json", req, "none", Idle, 400, FALSE,
                                      Nothing(<<"auth", "parse">>))
                   ELSE \E f \in Fetches, o \in ScanLlmOutcomes :
                           LET b == _build_report(url, f, o)
                           IN  out' = Answer("scan_json", req,
                                             IF f.ok THEN "ok" ELSE "failed", o,
                                             IF b.raised THEN 500 ELSE 200, b.raised,
                                             [b EXCEPT !.log = <<"auth", "parse">> \o @])
    /\ pc' = "done"
    /\ UNCHANGED <<env, now, files, scans>>

\* cli.py: main(url)
main ==
    /\ pc = "ready"
    /\ \E url \in {u_a}, f \in Fetches :
          LET b == cli_main(url, f)
          IN  out' = Answer("main", Idle, IF f.ok THEN "ok" ELSE "failed", Idle,
                            IF b.raised THEN 1 ELSE 0, b.raised, b)
    /\ pc' = "done"
    /\ UNCHANGED <<env, now, files, scans>>

\* llm/summary.py: generate_executive_summary called on its own
summarize ==
    /\ pc = "ready"
    /\ \E url \in {u_a}, title \in {t_T}, findings \in FindingSeqs, o \in LlmOutcomes :
          LET r == generate_executive_summary(url, title, findings, o)
          IN  out' = [op |-> "generate_executive_summary", url |-> url, title |-> title,
                      findings |-> findings, outcome |-> o, raised |-> r.raised,
                      value |-> r.value, log |-> r.log]
    /\ pc' = "done"
    /\ UNCHANGED <<env, now, files, scans>>

---------------------------------------------------------------------------
(* POST /scan: the requests run on the server's thread pool *)

\* the /scan requests in flight
NumScans == 2
\* clock instants in one second
TicksPerSecond == 2

Threads == 1..NumScans

\* datetime.now(timezone.utc).strftime("%Y%m%d-%H%M%S"): the instant to the second
Strftime(t) == t \div TicksPerSecond

\* f"report-{ts}.json", f"report-{ts}.html"
ReportName(ts, ext) == [ts |-> ts, ext |-> ext]

NoFile == [scan |-> 0]

\* report = _build_report(url)
scan_ui_build(t) ==
    /\ scans[t].pc = "start"
    /\ \E f \in {Fetched(FALSE, <<>>, <<>>, TRUE, <<>>),
                 Fetched(TRUE, ResponseHeaders({h_server}, "Title", 0, FALSE), <<>>, TRUE,
                         <<>>)} :
          LET b == _build_report(IF t = 1 THEN u_a ELSE u_b, f,
                                 LlmOutcome(TRUE, TRUE, "raise", 0, FALSE, <<>>))
          IN  scans' = [scans EXCEPT ![t] =
                           [@ EXCEPT !.pc = IF b.raised THEN "raised" ELSE "built",
                                     !.report = b.report]]
    /\ UNCHANGED <<env, pc, out, now, files>>

\* ts = datetime.now(timezone.utc).strftime(...)
scan_ui_stamp(t) ==
    /\ scans[t].pc = "built"
    /\ scans' = [scans EXCEPT ![t] = [@ EXCEPT !.pc = "named", !.ts = Strftime(now)]]
    /\ UNCHANGED <<env, pc, out, now, files>>

\* out_json.write_text(...)
scan_ui_write_json(t) ==
    /\ scans[t].pc = "named"
    /\ files' = [files EXCEPT ![ReportName(scans[t].ts, "json")] = [scan |-> t]]
    /\ scans' = [scans EXCEPT ![t] = [@ EXCEPT !.pc = "json_written"]]
    /\ UNCHANGED <<env, pc, out, now>>

\* out_html.write_text(...), then the result page
scan_ui_write_html(t) ==
    /\ scans[t].pc = "json_written"
    /\ files' = [files EXCEPT ![ReportName(scans[t].ts, "html")] = [scan |-> t]]
    /\ scans' = [scans EXCEPT ![t] = [@ EXCEPT !.pc = "done"]]
    /\ UNCHANGED <<env, pc, out, now>>

\* time passes
Tick ==
    /\ now < MaxClock
    /\ now' = now + 1
    /\ UNCHANGED <<env, pc, out, files, scans>>

---------------------------------------------------------------------------
(* Specifications *)

FileNames == {ReportName(ts, ext) : ts \in 0..Strftime(MaxClock), ext \in {"json", "html"}}

NoScans == [t \in Threads |-> [pc |-> "none", report |-> NoReport, ts |-> 0]]

InitCommon ==
    /\ pc = "ready"
    /\ out = Idle
    /\ now = 0
    /\ files = [n \in FileNames |-> NoFile]

\* one scan, from the command line or by POST /scan-json
Init ==
    /\ env \in ScanEnvs
    /\ InitCommon
    /\ scans = NoScans

Next == main \/ scan_json

Spec == Init /\ [][Next]_vars

\* one call of generate_executive_summary
InitSummarizer ==
    /\ env \in SummarizerEnvs
    /\ InitCommon
    /\ scans = NoScans

NextSummarizer == summarize

SpecSummarizer == InitSummarizer /\ [][NextSummarizer]_vars

\* NumScans requests POST /scan
InitPersist ==
    /\ env \in {MakeEnv(Unset, Unset, Unset, Unset, Unset),
                MakeEnv(SetTo(s_true), SetTo(k_sk), Unset, Unset, Unset)}
    /\ InitCommon
    /\ scans = [t \in Threads |-> [pc |-> "start", report |-> NoReport, ts |-> 0]]

NextPersist ==
    \/ \E t \in Threads : scan_ui_build(t)
    \/ \E t \in Threads : scan_ui_stamp(t)
    \/ \E t \in Threads : scan_ui_write_json(t)
    \/ \E t \in Threads : scan_ui_write_html(t)
    \/ Tick

SpecPersist == InitPersist /\ [][NextPersist]_vars

---------------------------------------------------------------------------
(* Properties *)

\* the opt-in flag is "true" in some letter case and a credential is configured,
\* read off the environment
CapabilityConfigured ==
    /\ env["WEBSENTRY_LLM_ENABLED"].set
    /\ Lower(env["WEBSENTRY_LLM_ENABLED"].val) = s_true
    /\ env["OPENAI_API_KEY"].set
    /\ env["OPENAI_API_KEY"].val # <<>>

\* the external call did not give text: it was never made, it raised, or its
\* response held no choice, no content or blank content
NoTextFrom(o) ==
    \/ ~o.import_ok
    \/ ~o.client_ok
    \/ o.create = "raise"
    \/ o.choices = 0
    \/ o.content_none
    \/ \A i \in 1..Len(o.content) : IsSpace(o.content[i])

Occurrences(log, what) == Cardinality({i \in 1..Len(log) : log[i] = what})

Summarized == pc = "done" /\ out.op = "generate_executive_summary"

\* C1: generate_executive_summary never raises and never returns an empty string,
\* for every findings sequence, capability enabled or disabled, and every outcome
\* of the external call; whenever the capability is disabled or the call fails or
\* gives empty or blank text, the string returned is the rule-based fallback.
C1_NeverRaisesNeverEmpty ==
    Summarized =>
        /\ ~out.raised
        /\ ~IsEmptyText(out.value)
        /\ (~CapabilityConfigured \/ NoTextFrom(out.outcome)) =>
              out.value = rule_based_executive_summary(out.url, out.title, out.findings)

\* C1 witness: the capability is enabled, the call succeeds with blank text, and
\* the fallback for two findings is returned.
C1_Witness ==
    /\ Summarized
    /\ CapabilityConfigured
    /\ out.outcome.create = "ok"
    /\ out.outcome.choices = 1
    /\ out.outcome.content = <<32, 10>>
    /\ Len(out.findings) = 2
    /\ Occurrences(out.log, "create") = 1
    /\ out.value = rule_based_executive_summary(out.url, out.title, out.findings)

\* C9: one call of generate_executive_summary makes no external call when the
\* capability is disabled (flag not "true" or no credential) and at most one when
\* it is enabled, made after the fallback was computed; a failed call is not
\* retried.
C9_AtMostOneExternalCall ==
    Summarized =>
        /\ ~CapabilityConfigured =>
              /\ Occurrences(out.log, "create") = 0
              /\ Occurrences(out.log, "OpenAI") = 0
        /\ Occurrences(out.log, "create") <= 1
        /\ \A i \in 1..Len(out.log) :
              out.log[i] = "create" =>
                  \E j \in 1..(i - 1) : out.log[j] = "rule_based_executive_summary"

\* C9 witness: the capability is enabled, the one call raises, and the log holds
\* exactly one call.
C9_Witness ==
    /\ Summarized
    /\ CapabilityConfigured
    /\ out.outcome.import_ok
    /\ out.outcome.client_ok
    /\ out.outcome.create = "raise"
    /\ Occurrences(out.log, "create") = 1

\* the map has a key that is k in some letter case, and that key's value
HasKeyAnyCase(headers, k) == \E i \in 1..Len(headers) : Lower(headers[i].k) = k

GetAnyCase(headers, k) ==
    headers[CHOOSE i \in 1..Len(headers) : Lower(headers[i].k) = k].v

\* a handler returned a report
Reported == pc = "done" /\ out.op \in {"main", "scan_json"} /\ HasReport(out.report)

FindingsTitled(findings, title) == {i \in 1..Len(findings) : findings[i].title = title}

\* C2: when the header map handed to the rule engine has no key equal to
\* "content-security-policy" ignoring letter case, the findings hold exactly one
\* Medium finding titled "Missing Content-Security-Policy header"; when it has such
\* a key in any letter case, they hold none.
C2_CspMatchIgnoresCase ==
    Reported =>
        LET hits == FindingsTitled(out.report.findings,
                                   "Missing Content-Security-Policy header")
        IN  IF HasKeyAnyCase(out.headers, h_csp)
            THEN hits = {}
            ELSE /\ Cardinality(hits) = 1
                 /\ \A i \in hits : out.report.findings[i].severity = "Medium"

\* C3: for every header map with a "server" key in any letter case, the findings
\* hold a Low "Server version disclosure" finding whose evidence includes that
\* header's value.
C3_ServerAnyCase ==
    (Reported /\ HasKeyAnyCase(out.headers, h_server)) =>
        \E i \in FindingsTitled(out.report.findings, "Server version disclosure") :
            /\ out.report.findings[i].severity = "Low"
            /\ out.report.findings[i].evidence.args = <<GetAnyCase(out.headers, h_server)>>

\* C4: every assembled report, from main and from _build_report, carries
\* summary.severity_breakdown with the exact High, Medium and Low counts of its
\* findings, and summary.total_findings equal to their number.
C4_SeverityBreakdown ==
    Reported =>
        /\ "summary" \in DOMAIN out.report
        /\ out.report.summary.total_findings = Len(out.report.findings)
        /\ \A sev \in {"High", "Medium", "Low"} :
              out.report.summary.severity_breakdown[sev]
                  = CountSeverity(out.report.findings, sev)

\* C5: in every assembled report, from main and from _build_report,
\* headers_sample has at most 25 entries, each an entry of the fetched header map,
\* and they are the first entries of the map in ascending key order.
C5_HeadersSample ==
    Reported =>
        LET sample == out.report.headers_sample
            sorted == Sorted(Keys(out.headers))
        IN  /\ Len(sample) <= 25
            /\ \A i \in 1..Len(sample) :
                  \E j \in 1..Len(out.headers) : out.headers[j] = sample[i]
            /\ Len(sample) = (IF Len(sorted) < 25 THEN Len(sorted) ELSE 25)
            /\ \A i \in 1..Len(sample) : sample[i].k = sorted[i]

\* C6: meta.mode records the configured capability: when the capability is
\* enabled and the external call fails, the report's executive_summary is the
\* rule-based fallback for its url, title and findings and meta.mode reports
\* enabled; meta.mode reports disabled exactly when the summarizer took the
\* disabled path.
C6_ModeIsConfiguration ==
    (Reported /\ out.op = "scan_json") =>
        LET mode == out.report.meta.mode
        IN  /\ (CapabilityConfigured /\ out.outcome.create = "raise") =>
                  /\ out.report.executive_summary
                        = rule_based_executive_summary(out.report.url, out.report.title,
                                                       out.report.findings)
                  /\ mode = "AI-assisted (LLM enabled)"
            /\ mode = "Rule-based (LLM disabled)" <=> Occurrences(out.log, "import") = 0
            /\ mode = "AI-assisted (LLM enabled)" <=> CapabilityConfigured
            /\ mode \in {"AI-assisted (LLM enabled)", "Rule-based (LLM disabled)"}

\* C6 witness: the capability is enabled, the external call times out, and the
\* report carries the fallback and the enabled mode.
C6_Witness ==
    /\ Reported
    /\ out.op = "scan_json"
    /\ CapabilityConfigured
    /\ out.outcome.create = "raise"
    /\ Occurrences(out.log, "create") = 1
    /\ out.report.meta.mode = "AI-assisted (LLM enabled)"
    /\ out.report.executive_summary
          = rule_based_executive_summary(out.report.url, out.report.title,
                                         out.report.findings)

\* C7: a scan is all-or-nothing: when the fetch fails the failure reaches the
\* caller, no later stage runs and no report is returned or saved; when the fetch
\* succeeds a report is produced and it holds a non-empty executive_summary.
C7_AllOrNothing ==
    (pc = "done" /\ out.op \in {"main", "scan_json"}) =>
        /\ out.fetch = "failed" =>
              /\ out.raised
              /\ ~HasReport(out.report)
              /\ \A i \in 1..Len(out.log) :
                    out.log[i] \notin {"rules", "rule_based_executive_summary", "create",
                                       "assemble", "save_json", "save_html"}
        /\ out.fetch = "ok" =>
              /\ ~out.raised
              /\ HasReport(out.report)
              /\ "executive_summary" \in DOMAIN out.report
              /\ ~IsEmptyText(out.report.executive_summary)

\* an API key is configured
ApiKeyConfigured == env["WEBSENTRY_API_KEY"].set /\ env["WEBSENTRY_API_KEY"].val # <<>>

\* the request's X-API-Key is missing or is not the configured key
WrongApiKey(req) == ~req.has_key \/ req.key # env["WEBSENTRY_API_KEY"].val

\* the body is an object whose url is missing, null or empty
NoUrl(req) == req.body = "object" /\ (~req.has_url \/ req.url_null \/ req.url = <<>>)

Named(t) == scans[t].pc \in {"named", "json_written", "done"}

\* C10: any two scans handled by /scan choose different JSON and HTML file names,
\* also when they finish within the same second, and the JSON and the HTML file of
\* one name are written by one scan.
C10_UniqueNames ==
    /\ \A t1, t2 \in Threads : (t1 # t2 /\ Named(t1) /\ Named(t2)) => scans[t1].ts # scans[t2].ts
    /\ \A ts \in 0..Strftime(MaxClock) :
          (files[ReportName(ts, "json")] # NoFile /\ files[ReportName(ts, "html")] # NoFile) =>
              files[ReportName(ts, "json")] = files[ReportName(ts, "html")]

=============================================================================
